---- MODULE Spec2Model ----
(***************************************************************************)
(* Model of endurer-ng, the offline page-remapping (wear-levelling)        *)
(* simulator.  The repository holds two builds of class Endurer:           *)
(*   - the single-node build  (src/unnamed/part_000, src/unnamed/part_002) *)
(*   - the cluster build      (src/unnamed/part_001, src/endurer.cpp)      *)
(* Each build is one record-valued variable whose fields carry the names   *)
(* of the members and locals of that build; `pc` is the position of the    *)
(* build's only thread inside Endurer::run().                              *)
(*                                                                         *)
(* Counters are uint64_t in the source; all values reached within the      *)
(* bounds below stay far under 2^64, so they are modelled as naturals.     *)
(* remap_period and the time units are doubles in the source; the model    *)
(* draws them from small integers, which doubles represent exactly.  The   *)
(* derived statistics are doubles too and are kept as exact quotients.     *)
(* A run starts in main() before the arguments are validated and ends at   *)
(* pc = "exit" with the exit status of the process.                        *)
(***************************************************************************)
EXTENDS Integers, Sequences, FiniteSets, TLC

(* ---------------------------- bounds ----------------------------------- *)
MaxLen == 3
MaxEndurance == 3
MaxEpochs == 4
MaxSizingLen == 9

\* the write counts of a trace entry, the remap periods, the time units per
\* pass of a trace, and the cluster sizes that are explored
CountDom == {0, 1, 2}
PeriodDom == {0, 1, 2}
TimeUnitsDom == {1, 2}
NodeCounts == {1, 2, 3}

(* ----------------------- program constants ----------------------------- *)
EXTRA_WRITES_PER_REMAP == 1

VARIABLES single, cluster, rand_stream

vars == <<single, cluster, rand_stream>>

(* ------------------------------ helpers -------------------------------- *)
MAX(a, b) == IF a > b THEN a ELSE b

RECURSIVE msb_bit_pos(_)
\* ((8 * sizeof(uint64_t)) - 1) - __builtin_clzl(x): index of the highest set bit
msb_bit_pos(x) == IF x <= 1 THEN 0 ELSE 1 + msb_bit_pos(x \div 2)

RECURSIVE popcount(_)
popcount(x) == IF x = 0 THEN 0 ELSE (x % 2) + popcount(x \div 2)

\* variant: the power-of-two test is dropped, the size is always doubled
memory_n_pages_always_next(write_set_n_pages) ==
    2 ^ (msb_bit_pos(write_set_n_pages) + 1)

\* the power-of-two page count one write-set of n pages asks for
memory_n_pages_for(write_set_n_pages) ==
    LET write_set_msb_bit_pos == msb_bit_pos(write_set_n_pages)
        write_set_is_power_of_two == popcount(write_set_n_pages) = 1
        memory_n_pages_log2 == IF write_set_is_power_of_two
                               THEN write_set_msb_bit_pos
                               ELSE write_set_msb_bit_pos + 1
    IN  2 ^ memory_n_pages_log2

\* total_writes >= cell_write_endurance compares a uint64_t with an int64_t:
\* the endurance is converted to uint64_t, so a negative endurance becomes a
\* value of at least 2^63, which no counter of a bounded run reaches
reached_endurance(total_writes, cell_write_endurance) ==
    cell_write_endurance >= 0 /\ total_writes >= cell_write_endurance

\* a double that is the exact quotient num * (2^30)^gib / den; den = 0 is the
\* infinity (or NaN) a floating-point division by zero yields
dbl(num, den, gib) == [num |-> num, den |-> den, gib |-> gib]

mem_zero == [period_writes |-> 0, total_writes |-> 0]

\* a fresh array of n zeroed page counters, indexed from 0
new_memory(n) == [j \in 0 .. (n - 1) |-> mem_zero]

\* variant: only the pages written in the current period pay the overhead
remap_pages_written_only(memory) ==
    [j \in DOMAIN memory |->
        [period_writes |-> 0,
         total_writes  |-> IF memory[j].period_writes > 0
                           THEN memory[j].total_writes + EXTRA_WRITES_PER_REMAP
                           ELSE memory[j].total_writes]]

\* variant: the period counters survive the remap
remap_pages_keep_period(memory) ==
    [j \in DOMAIN memory |->
        [period_writes |-> memory[j].period_writes,
         total_writes  |-> memory[j].total_writes + EXTRA_WRITES_PER_REMAP]]

\* the page-counter part of do_remap(): overhead write and period reset
remap_pages(memory) ==
    [j \in DOMAIN memory |->
        [period_writes |-> 0,
         total_writes  |-> memory[j].total_writes + EXTRA_WRITES_PER_REMAP]]

\* variant: a remap is requested only once a page exceeds remap_period
write_page_remap_strict(st, new_writes, mem_idx, remap_period, cell_write_endurance) ==
    LET m == [period_writes |-> st.memory[mem_idx].period_writes + new_writes,
              total_writes  |-> st.memory[mem_idx].total_writes + new_writes]
    IN  [memory           |-> [st.memory EXCEPT ![mem_idx] = m],
         should_remap     |-> st.should_remap \/ (m.period_writes > remap_period),
         should_terminate |-> st.should_terminate
                                \/ reached_endurance(m.total_writes,
                                                     cell_write_endurance)]

\* variant: the write is added to period_writes only
write_page_period_only(st, new_writes, mem_idx, remap_period, cell_write_endurance) ==
    LET m == [period_writes |-> st.memory[mem_idx].period_writes + new_writes,
              total_writes  |-> st.memory[mem_idx].total_writes]
    IN  [memory           |-> [st.memory EXCEPT ![mem_idx] = m],
         should_remap     |-> st.should_remap \/ (m.period_writes >= remap_period),
         should_terminate |-> st.should_terminate
                                \/ reached_endurance(m.total_writes,
                                                     cell_write_endurance)]

\* one page of the write-triggered inner loop; st = [memory, should_remap,
\* should_terminate]
write_page(st, new_writes, mem_idx, remap_period, cell_write_endurance) ==
    LET m == [period_writes |-> st.memory[mem_idx].period_writes + new_writes,
              total_writes  |-> st.memory[mem_idx].total_writes + new_writes]
    IN  [memory           |-> [st.memory EXCEPT ![mem_idx] = m],
         should_remap     |-> st.should_remap \/ (m.period_writes >= remap_period),
         should_terminate |-> st.should_terminate
                                \/ reached_endurance(m.total_writes,
                                                     cell_write_endurance)]

RECURSIVE sum_new_writes(_, _)
\* the sum of the new_writes the inner loop reads from page on (history)
sum_new_writes(write_set, page) ==
    IF page >= Len(write_set) THEN 0
    ELSE write_set[page + 1] + sum_new_writes(write_set, page + 1)

RECURSIVE write_loop_stop_at_endurance(_, _, _, _, _, _, _)
\* variant: the inner loop is left as soon as a page reaches the endurance
write_loop_stop_at_endurance(st, write_set, offset, memory_n_pages, remap_period, cell_write_endurance, page) ==
    IF page >= Len(write_set) \/ st.should_terminate THEN st
    ELSE write_loop_stop_at_endurance(
             write_page(st, write_set[page + 1],
                        (page + offset) % memory_n_pages,
                        remap_period, cell_write_endurance),
             write_set, offset, memory_n_pages, remap_period,
             cell_write_endurance, page + 1)

RECURSIVE write_loop(_, _, _, _, _, _, _)
\* for (page = 0; page < write_set_n_pages; ++page) { ... } of do_sim_write
write_loop(st, write_set, offset, memory_n_pages, remap_period, cell_write_endurance, page) ==
    IF page >= Len(write_set) THEN st
    ELSE write_loop(write_page(st, write_set[page + 1],
                               (page + offset) % memory_n_pages,
                               remap_period, cell_write_endurance),
                    write_set, offset, memory_n_pages, remap_period,
                    cell_write_endurance, page + 1)

\* one page of the time-triggered inner loop: period_writes is not tracked
time_page(st, new_writes, mem_idx, cell_write_endurance) ==
    LET m == [period_writes |-> st.memory[mem_idx].period_writes,
              total_writes  |-> st.memory[mem_idx].total_writes + new_writes]
    IN  [memory           |-> [st.memory EXCEPT ![mem_idx] = m],
         should_remap     |-> st.should_remap,
         should_terminate |-> st.should_terminate
                                \/ reached_endurance(m.total_writes,
                                                     cell_write_endurance)]

RECURSIVE time_loop(_, _, _, _, _, _)
time_loop(st, write_set, offset, memory_n_pages, cell_write_endurance, page) ==
    IF page >= Len(write_set) THEN st
    ELSE time_loop(time_page(st, write_set[page + 1],
                             (page + offset) % memory_n_pages,
                             cell_write_endurance),
                   write_set, offset, memory_n_pages,
                   cell_write_endurance, page + 1)

(* ------------------- the seeded offset generator ----------------------- *)
(* rand_gen.seed(RAND_SEED) with rand_dist over [0, memory_n_pages - 1]     *)
(* yields one fixed sequence of offsets per memory size.  rand_stream is    *)
(* the prefix of that sequence drawn so far; rand_pos of a build counts    *)
(* the draws that build has made since seeding.  A draw past the known     *)
(* prefix may be any value of the range, a draw inside it repeats it.      *)
rand_draws(pos, k, memory_n_pages) ==
    {d \in [1 .. k -> 0 .. (memory_n_pages - 1)] :
        \A i \in 1 .. k :
            (pos + i <= Len(rand_stream)) => (d[i] = rand_stream[pos + i])}

rand_extend(pos, d) ==
    IF pos + Len(d) > Len(rand_stream)
    THEN SubSeq(rand_stream, 1, pos) \o d
    ELSE rand_stream

(* ======================= single-node build ============================= *)
WriteSetDom == UNION {[1 .. n -> CountDom] : n \in 1 .. MaxLen}

\* the traces given to the nodes of a cluster of n nodes: any trace for one
\* node; for two nodes the traces of one or two pages and one of three; for
\* more nodes a few traces of one and two pages
ClusterFileDom(n) ==
    IF n = 1 THEN WriteSetDom
    ELSE IF n = 2 THEN {f \in WriteSetDom : Len(f) <= 2} \cup {<<1, 0, 2>>}
    ELSE {<<0>>, <<1>>, <<2>>, <<0, 2>>, <<1, 1>>}

\* the time units of a cluster of n nodes: all equal, or all distinct
ClusterTimeUnits(n) ==
    {[i \in 0 .. (n - 1) |-> 1], [i \in 0 .. (n - 1) |-> i + 1]}

\* variant: the message is printed and the process exits with status 0
print_message_and_exit_zero(s, format) ==
    [s EXCEPT !.pc = "exit", !.exit_status = 0, !.message = format]

\* print_message_and_die(): the message goes to stderr, the process exits
\* with status 1
print_message_and_die(s, format) ==
    [s EXCEPT !.pc = "exit", !.exit_status = 1, !.message = format]

\* the object after Endurer::Endurer(argc, argv) accepted the arguments.
\* argv tells how the getopt() loop ended; input_file_opens and
\* input_file_tail (the bytes after the last whole 8-byte word) describe the
\* file behind input_filepath; exit_status is -1 while the process runs.
\* applied and applied_since_remap are history: the sum of the write-set
\* entries handed to the inner loop so far, and since the last do_remap().
single_constructed(cfg) ==
    [pc                   |-> "read_input_file",
     argv                 |-> cfg.argv,
     page_size            |-> cfg.page_size,
     input_filepath       |-> cfg.input_filepath,
     input_file_opens     |-> cfg.input_file_opens,
     input_file_tail      |-> cfg.input_file_tail,
     exit_status          |-> -1,
     message              |-> "",
     report_printed       |-> FALSE,
     stats_final          |-> FALSE,
     wss_pages            |-> 0,
     wss_bytes            |-> 0,
     wss_gib              |-> dbl(0, 1, 0),
     mems_per_gib         |-> dbl(0, 1, 0),
     n_iterations_per_gib |-> dbl(0, 1, 0),
     time_unscaled        |-> dbl(0, 1, 0),
     time_per_gib         |-> dbl(0, 1, 0),
     max_n_writes         |-> 0,
     total_n_writes       |-> 0,
     run                  |-> 1,
     first_run            |-> <<>>,
     mode                 |-> cfg.mode,
     cell_write_endurance |-> cfg.cell_write_endurance,
     remap_period         |-> cfg.remap_period,
     input_time_units     |-> cfg.input_time_units,
     input_file           |-> cfg.input_file,
     write_set            |-> <<>>,
     write_set_n_pages    |-> 0,
     memory               |-> <<>>,
     memory_n_pages       |-> 0,
     rand_pos             |-> 0,
     curr_offset          |-> 0,
     n_iterations         |-> 0,
     n_remaps             |-> 0,
     should_remap         |-> FALSE,
     should_terminate     |-> FALSE,
     remap_timer          |-> 0,
     epochs               |-> 0,
     applied              |-> 0,
     applied_since_remap  |-> 0]

\* main() has entered the constructor, the getopt() loop has not run yet
single_started(cfg) ==
    [single_constructed(cfg) EXCEPT !.pc = "parse_and_validate_args"]

\* the message of the first check of parse_and_validate_args() that fails,
\* "" when all of them pass
single_args_error(s) ==
    IF s.argv = "unrecognized" THEN "unrecognized argument"
    ELSE IF s.argv = "unparsable" THEN "generic arg parse failure"
    ELSE IF s.mode \notin {"time", "write", "lifetime"} THEN "mode must be"
    ELSE IF s.page_size = -1 THEN "must supply page size"
    ELSE IF s.cell_write_endurance = -1 THEN "must supply cell write endurance"
    ELSE IF s.mode # "lifetime" /\ s.remap_period = -1
         THEN "must supply remap period"
    ELSE IF s.input_filepath = "" THEN "must supply input file"
    ELSE IF s.input_time_units = 0 THEN "must supply input time units"
    ELSE ""

single_parse_and_validate_args ==
    /\ single.pc = "parse_and_validate_args"
    /\ single' = IF single_args_error(single) # ""
                 THEN print_message_and_die(single, single_args_error(single))
                 ELSE [single EXCEPT !.pc = "read_input_file"]
    /\ UNCHANGED <<cluster, rand_stream>>

\* the size in bytes of a file of whole 8-byte words and a tail
input_file_size(words, tail) == 8 * Len(words) + tail

single_read_input_file ==
    /\ single.pc = "read_input_file"
    /\ single' =
          IF ~single.input_file_opens
          THEN print_message_and_die(single, "could not open input file")
          ELSE IF input_file_size(single.input_file, single.input_file_tail) % 8 # 0
          THEN print_message_and_die(single, "malformed input file")
          ELSE [single EXCEPT
                  !.write_set = single.input_file,
                  !.write_set_n_pages =
                      input_file_size(single.input_file, single.input_file_tail)
                          \div 8,
                  !.pc = "create_memory"]
    /\ UNCHANGED <<cluster, rand_stream>>

\* __builtin_clzl(0) is undefined: for an empty write-set the bit position
\* may come out as anything.  A build that counts with lzcnt gets 64 and so
\* memory_n_pages_log2 = 0, a build that scans with bsr typically gets 63 and
\* so memory_n_pages_log2 = 1; the model lets it be either.
UndefinedLog2Dom == {0, 1}

memory_n_pages_log2_choices(lengths) ==
    IF 0 \in lengths THEN UndefinedLog2Dom ELSE {0}

\* the page count one write-set asks for; u is what the undefined case yields
node_memory_n_pages(write_set_n_pages, u) ==
    IF write_set_n_pages = 0 THEN 2 ^ u
    ELSE memory_n_pages_for(write_set_n_pages)

\* create_memory(), then the mode dispatch of run()
single_create_memory ==
    /\ single.pc = "create_memory"
    /\ \E u \in memory_n_pages_log2_choices({single.write_set_n_pages}) :
         LET n == node_memory_n_pages(single.write_set_n_pages, u)
         IN  single' = [single EXCEPT
                          !.memory_n_pages = n,
                          !.memory = new_memory(n),
                          !.rand_pos = 0,
                          !.pc = IF single.mode = "write" THEN "do_sim_write"
                                 ELSE IF single.mode = "time" THEN "do_sim_time"
                                 ELSE "do_sim_lifetime"]
    /\ UNCHANGED <<cluster, rand_stream>>

\* do_remap() of the single-node build, drawing offset `o`
single_do_remap(s, o) ==
    [s EXCEPT !.memory = remap_pages(s.memory),
              !.curr_offset = o,
              !.applied_since_remap = 0,
              !.rand_pos = s.rand_pos + 1,
              !.n_remaps = s.n_remaps + 1]

\* one pass of the outer loop body up to the end of the inner loop
single_write_epoch ==
    /\ single.pc = "do_sim_write"
    /\ single.epochs < MaxEpochs
    /\ LET st == write_loop([memory |-> single.memory, should_remap |-> FALSE,
                             should_terminate |-> FALSE],
                            single.write_set, single.curr_offset,
                            single.memory_n_pages, single.remap_period,
                            single.cell_write_endurance, 0)
       IN  single' = [single EXCEPT !.memory = st.memory,
                                    !.should_remap = st.should_remap,
                                    !.should_terminate = st.should_terminate,
                                    !.epochs = single.epochs + 1,
                                    !.applied = single.applied
                                        + sum_new_writes(single.write_set, 0),
                                    !.applied_since_remap =
                                        single.applied_since_remap
                                        + sum_new_writes(single.write_set, 0),
                                    !.pc = "l205"]
    /\ UNCHANGED <<cluster, rand_stream>>

\* if (should_remap) do_remap();
single_write_remap ==
    /\ single.pc = "l205"
    /\ IF single.should_remap
       THEN \E d \in rand_draws(single.rand_pos, 1, single.memory_n_pages) :
                /\ single' = [single_do_remap(single, d[1]) EXCEPT !.pc = "l206"]
                /\ rand_stream' = rand_extend(single.rand_pos, d)
       ELSE /\ single' = [single EXCEPT !.pc = "l206"]
            /\ UNCHANGED rand_stream
    /\ UNCHANGED cluster

\* if (should_terminate) break;  ++n_iterations;
single_write_end ==
    /\ single.pc = "l206"
    /\ IF single.should_terminate
       THEN single' = [single EXCEPT !.pc = "print_stats"]
       ELSE single' = [single EXCEPT !.n_iterations = single.n_iterations + 1,
                                     !.pc = "do_sim_write"]
    /\ UNCHANGED <<cluster, rand_stream>>

\* time-triggered mode: outer loop body up to the end of the inner loop
single_time_epoch ==
    /\ single.pc = "do_sim_time"
    /\ single.epochs < MaxEpochs
    /\ LET st == time_loop([memory |-> single.memory, should_remap |-> FALSE,
                            should_terminate |-> FALSE],
                           single.write_set, single.curr_offset,
                           single.memory_n_pages,
                           single.cell_write_endurance, 0)
       IN  single' = [single EXCEPT !.memory = st.memory,
                                    !.should_terminate = st.should_terminate,
                                    !.epochs = single.epochs + 1,
                                    !.applied = single.applied
                                        + sum_new_writes(single.write_set, 0),
                                    !.applied_since_remap =
                                        single.applied_since_remap
                                        + sum_new_writes(single.write_set, 0),
                                    !.pc = "l238"]
    /\ UNCHANGED <<cluster, rand_stream>>

\* variant: the epoch is counted before the termination test
single_time_end_count_first ==
    /\ single.pc = "l238"
    /\ IF single.should_terminate
       THEN single' = [single EXCEPT !.n_iterations = single.n_iterations + 1,
                                     !.pc = "print_stats"]
       ELSE single' = [single EXCEPT
                         !.n_iterations = single.n_iterations + 1,
                         !.remap_timer = single.remap_timer + single.input_time_units,
                         !.pc = "l244"]
    /\ UNCHANGED <<cluster, rand_stream>>

\* if (should_terminate) break;  ++n_iterations;  remap_timer += input_time_units;
single_time_end ==
    /\ single.pc = "l238"
    /\ IF single.should_terminate
       THEN single' = [single EXCEPT !.pc = "print_stats"]
       ELSE single' = [single EXCEPT
                         !.n_iterations = single.n_iterations + 1,
                         !.remap_timer = single.remap_timer + single.input_time_units,
                         !.pc = "l244"]
    /\ UNCHANGED <<cluster, rand_stream>>

\* variant: the timer is not reset by the remap
single_time_remap_keep_timer ==
    /\ single.pc = "l244"
    /\ IF single.remap_timer >= single.remap_period
       THEN \E d \in rand_draws(single.rand_pos, 1, single.memory_n_pages) :
                /\ single' = [single_do_remap(single, d[1]) EXCEPT
                                !.pc = "do_sim_time"]
                /\ rand_stream' = rand_extend(single.rand_pos, d)
       ELSE /\ single' = [single EXCEPT !.pc = "do_sim_time"]
            /\ UNCHANGED rand_stream
    /\ UNCHANGED cluster

\* if (remap_timer >= remap_period) { do_remap(); remap_timer = 0; }
single_time_remap ==
    /\ single.pc = "l244"
    /\ IF single.remap_timer >= single.remap_period
       THEN \E d \in rand_draws(single.rand_pos, 1, single.memory_n_pages) :
                /\ single' = [single_do_remap(single, d[1]) EXCEPT
                                !.remap_timer = 0, !.pc = "do_sim_time"]
                /\ rand_stream' = rand_extend(single.rand_pos, d)
       ELSE /\ single' = [single EXCEPT !.pc = "do_sim_time"]
            /\ UNCHANGED rand_stream
    /\ UNCHANGED cluster

RECURSIVE lifetime_scan_last(_, _, _)
\* variant: the most-written entry is taken to be the last one scanned
lifetime_scan_last(write_set, i, acc) ==
    IF i >= Len(write_set) THEN acc
    ELSE lifetime_scan_last(write_set, i + 1,
             [max_n_writes   |-> write_set[i + 1],
              total_n_writes |-> acc.total_n_writes + write_set[i + 1]])

RECURSIVE lifetime_scan(_, _, _)
\* for (i = 0; i < write_set_n_pages; ++i) { ... } of do_sim_lifetime()
lifetime_scan(write_set, i, acc) ==
    IF i >= Len(write_set) THEN acc
    ELSE lifetime_scan(write_set, i + 1,
             [max_n_writes   |-> IF write_set[i + 1] > acc.max_n_writes
                                 THEN write_set[i + 1] ELSE acc.max_n_writes,
              total_n_writes |-> acc.total_n_writes + write_set[i + 1]])

\* do_sim_lifetime(): time_unscaled =
\* ((double) cell_write_endurance / (double) max_n_writes) * input_time_units
single_do_sim_lifetime ==
    /\ single.pc = "do_sim_lifetime"
    /\ LET r == lifetime_scan(single.write_set, 0,
                              [max_n_writes |-> 0, total_n_writes |-> 0])
       IN  single' = [single EXCEPT
                        !.max_n_writes = r.max_n_writes,
                        !.total_n_writes = r.total_n_writes,
                        !.time_unscaled =
                            dbl(single.cell_write_endurance * single.input_time_units,
                                r.max_n_writes, 0),
                        !.pc = "print_stats"]
    /\ UNCHANGED <<cluster, rand_stream>>

\* variant: every call adds the new figure to the one already stored
single_compute_stats_accumulate(s) ==
    [s EXCEPT !.wss_pages = s.write_set_n_pages,
              !.wss_bytes = s.write_set_n_pages * s.page_size,
              !.wss_gib = dbl(s.write_set_n_pages * s.page_size, 1, -1),
              !.mems_per_gib = dbl(1, s.memory_n_pages * s.page_size, 1),
              !.n_iterations_per_gib =
                  dbl(s.n_iterations_per_gib.num + s.n_iterations,
                      s.memory_n_pages * s.page_size, 1),
              !.time_per_gib =
                  dbl(s.input_time_units
                        * (s.n_iterations_per_gib.num + s.n_iterations),
                      s.memory_n_pages * s.page_size, 1),
              !.stats_final = TRUE]

\* compute_stats() of the single-node build; mems_per_gib is a local there,
\* kept in the record because it is printed
single_compute_stats(s) ==
    [s EXCEPT !.wss_pages = s.write_set_n_pages,
              !.wss_bytes = s.write_set_n_pages * s.page_size,
              !.wss_gib = dbl(s.write_set_n_pages * s.page_size, 1, -1),
              !.mems_per_gib = dbl(1, s.memory_n_pages * s.page_size, 1),
              !.n_iterations_per_gib =
                  dbl(s.n_iterations, s.memory_n_pages * s.page_size, 1),
              !.time_per_gib =
                  dbl(s.input_time_units * s.n_iterations,
                      s.memory_n_pages * s.page_size, 1),
              !.stats_final = TRUE]

\* print_stats(): computes first if that has not been done, then prints
single_print_stats(s) ==
    [(IF ~s.stats_final THEN single_compute_stats(s) ELSE s)
        EXCEPT !.report_printed = TRUE]

\* print_stats() as called by run(), then main() returns 0
single_run_print_stats ==
    /\ single.pc = "print_stats"
    /\ single' = [single_print_stats(single) EXCEPT !.pc = "exit",
                                                    !.exit_status = 0]
    /\ UNCHANGED <<cluster, rand_stream>>

(* ========================== cluster build ============================== *)
\* the object after Endurer::Endurer(argc, argv) accepted the arguments;
\* vectors are functions over node indices 0 .. n_nodes - 1.  epoch_memories,
\* epoch_runtimes and node_epochs are history: the counters and runtimes as
\* the current epoch found them, and how often each node has been processed;
\* so are applied and applied_since_remap: per node, the sum of the write-set
\* entries handed to the inner loop so far, and since the last do_remap().
cluster_constructed(cfg) ==
    [pc                   |-> "read_input_files",
     argv                 |-> cfg.argv,
     page_size            |-> cfg.page_size,
     input_files_open     |-> cfg.input_files_open,
     input_file_tails     |-> cfg.input_file_tails,
     exit_status          |-> -1,
     message              |-> "",
     report_printed       |-> FALSE,
     stats_final          |-> FALSE,
     wss_bytes            |-> <<>>,
     wss_gib              |-> <<>>,
     mems_per_gib         |-> dbl(0, 1, 0),
     n_iterations_per_gib |-> dbl(0, 1, 0),
     time_unscaled        |-> dbl(0, 1, 0),
     time_per_gib         |-> dbl(0, 1, 0),
     epoch_memories       |-> <<>>,
     epoch_runtimes       |-> <<>>,
     node_epochs          |-> <<>>,
     run                  |-> 1,
     first_run            |-> <<>>,
     mode                 |-> cfg.mode,
     cell_write_endurance |-> cfg.cell_write_endurance,
     remap_period         |-> cfg.remap_period,
     input_time_units     |-> cfg.input_time_units,
     input_files          |-> cfg.input_files,
     n_nodes              |-> cfg.n_nodes,
     cluster_node_shift   |-> 0,
     write_sets           |-> <<>>,
     write_sets_n_pages   |-> <<>>,
     memories             |-> <<>>,
     memory_n_pages       |-> 0,
     rand_pos             |-> 0,
     intra_node_offsets   |-> <<>>,
     runtimes             |-> <<>>,
     n_iterations         |-> 0,
     n_remaps             |-> 0,
     should_remap         |-> FALSE,
     should_terminate     |-> FALSE,
     node                 |-> 0,
     epochs               |-> 0,
     applied              |-> <<>>,
     applied_since_remap  |-> <<>>]

Nodes(c) == 0 .. (c.n_nodes - 1)

\* main() has entered the constructor, the getopt() loop has not run yet;
\* n_nodes is still its initializer
cluster_started(cfg) ==
    [cluster_constructed(cfg) EXCEPT !.pc = "parse_and_validate_args",
                                     !.n_nodes = 0]

\* the message of the first check of parse_and_validate_args() that fails,
\* "" when all of them pass; argv = "unpaired" is argc != argc_expected
cluster_args_error(c) ==
    IF c.argv = "unrecognized" THEN "unrecognized argument"
    ELSE IF c.argv = "unparsable" THEN "generic arg parse failure"
    ELSE IF c.argv = "unpaired" THEN "each argument must be accompanied by a flag"
    ELSE IF c.mode \notin {"time", "write", "lifetime"} THEN "mode must be"
    ELSE IF c.page_size = -1 THEN "must supply page size"
    ELSE IF c.cell_write_endurance = -1 THEN "must supply cell write endurance"
    ELSE IF c.mode # "lifetime" /\ c.remap_period = -1
         THEN "must supply remap period"
    ELSE IF Cardinality(DOMAIN c.input_files) = 0 THEN "must supply input file(s)"
    ELSE IF Cardinality(DOMAIN c.input_time_units) = 0
         THEN "must supply input time units"
    ELSE IF Cardinality(DOMAIN c.input_files) # Cardinality(DOMAIN c.input_time_units)
         THEN "must specify an indentical number"
    ELSE ""

cluster_parse_and_validate_args ==
    /\ cluster.pc = "parse_and_validate_args"
    /\ cluster' = IF cluster_args_error(cluster) # ""
                  THEN print_message_and_die(cluster, cluster_args_error(cluster))
                  ELSE [cluster EXCEPT
                          !.n_nodes = Cardinality(DOMAIN cluster.input_files),
                          !.pc = "read_input_files"]
    /\ UNCHANGED <<single, rand_stream>>

RECURSIVE cluster_files_error(_, _)
\* the message of the first file, from file i on, that read_input_files()
\* dies on, "" when every file is read
cluster_files_error(c, i) ==
    IF i >= c.n_nodes THEN ""
    ELSE IF ~c.input_files_open[i] THEN "could not open input file"
    ELSE IF input_file_size(c.input_files[i], c.input_file_tails[i]) % 8 # 0
         THEN "malformed input file"
    ELSE cluster_files_error(c, i + 1)

\* every element is stored in place inside the capacity reserve() obtained
cluster_read_input_files ==
    /\ cluster.pc = "read_input_files"
    /\ cluster' =
          IF cluster_files_error(cluster, 0) # ""
          THEN print_message_and_die(cluster, cluster_files_error(cluster, 0))
          ELSE [cluster EXCEPT
                  !.write_sets = [i \in Nodes(cluster) |-> cluster.input_files[i]],
                  !.write_sets_n_pages =
                      [i \in Nodes(cluster) |->
                          input_file_size(cluster.input_files[i],
                                          cluster.input_file_tails[i]) \div 8],
                  !.pc = "create_node_memories"]
    /\ UNCHANGED <<single, rand_stream>>

\* variant: the size the last write-set asks for replaces the running result
common_memory_n_pages_last(write_sets_n_pages, n_nodes, i, acc, u) ==
    IF i >= n_nodes THEN acc
    ELSE node_memory_n_pages(write_sets_n_pages[n_nodes - 1], u)

RECURSIVE common_memory_n_pages(_, _, _, _, _)
\* the first loop of create_node_memories(): running MAX over nodes i ..;
\* u is what the undefined bit position of an empty write-set yields
common_memory_n_pages(write_sets_n_pages, n_nodes, i, acc, u) ==
    IF i >= n_nodes THEN acc
    ELSE common_memory_n_pages(write_sets_n_pages, n_nodes, i + 1,
             MAX(acc, node_memory_n_pages(write_sets_n_pages[i], u)), u)

\* create_node_memories(), then the mode dispatch of run(): any mode other
\* than write is not implemented in this build
cluster_create_node_memories ==
    /\ cluster.pc = "create_node_memories"
    /\ \E u \in memory_n_pages_log2_choices(
                    {cluster.write_sets_n_pages[i] : i \in Nodes(cluster)}) :
         LET n == common_memory_n_pages(cluster.write_sets_n_pages,
                                        cluster.n_nodes, 0,
                                        cluster.memory_n_pages, u)
             created == [cluster EXCEPT
                           !.memory_n_pages = n,
                           !.memories = [i \in Nodes(cluster) |-> new_memory(n)],
                           !.rand_pos = 0,
                           !.pc = "do_sim_write"]
         IN  cluster' = IF cluster.mode = "write" THEN created
                        ELSE print_message_and_die(created, "NYI: mode unsupported")
    /\ UNCHANGED <<single, rand_stream>>

\* the entry of do_sim_write(): both vectors resized to n_nodes zeros,
\* should_terminate = false
cluster_do_sim_write ==
    /\ cluster.pc = "do_sim_write"
    /\ cluster' = [cluster EXCEPT
                     !.intra_node_offsets = [i \in Nodes(cluster) |-> 0],
                     !.runtimes = [i \in Nodes(cluster) |-> 0],
                     !.node_epochs = [i \in Nodes(cluster) |-> 0],
                     !.applied = [i \in Nodes(cluster) |-> 0],
                     !.applied_since_remap = [i \in Nodes(cluster) |-> 0],
                     !.should_terminate = FALSE,
                     !.pc = "l252"]
    /\ UNCHANGED <<single, rand_stream>>

\* variant: every node keeps the write-set of its own index
get_write_set_idx_unshifted(c, node_idx) == node_idx % c.n_nodes

get_write_set_idx(c, node_idx) == (node_idx + c.cluster_node_shift) % c.n_nodes

\* variant: the round-robin shift is not advanced
cluster_do_remap_no_shift(c, d) ==
    [c EXCEPT !.memories = [i \in Nodes(c) |-> remap_pages(c.memories[i])],
              !.intra_node_offsets = [i \in Nodes(c) |-> d[i + 1]],
              !.applied_since_remap = [i \in Nodes(c) |-> 0],
              !.rand_pos = c.rand_pos + c.n_nodes,
              !.n_remaps = c.n_remaps + 1]

\* do_remap() of the cluster build; d[i + 1] is the offset drawn for node i
cluster_do_remap(c, d) ==
    [c EXCEPT !.memories = [i \in Nodes(c) |-> remap_pages(c.memories[i])],
              !.intra_node_offsets = [i \in Nodes(c) |-> d[i + 1]],
              !.applied_since_remap = [i \in Nodes(c) |-> 0],
              !.rand_pos = c.rand_pos + c.n_nodes,
              !.cluster_node_shift = (c.cluster_node_shift + 1) % c.n_nodes,
              !.n_remaps = c.n_remaps + 1]

\* while (!should_terminate) { bool should_remap = false; node = 0 ...
cluster_epoch_begin ==
    /\ cluster.pc = "l252"
    /\ ~cluster.should_terminate
    /\ cluster.epochs < MaxEpochs
    /\ cluster' = [cluster EXCEPT !.should_remap = FALSE,
                                  !.node = 0,
                                  !.epochs = cluster.epochs + 1,
                                  !.epoch_memories = cluster.memories,
                                  !.epoch_runtimes = cluster.runtimes,
                                  !.pc = "l255"]
    /\ UNCHANGED <<single, rand_stream>>

\* variant: the rotation advances as soon as a page reaches remap_period
cluster_node_shift_at_once ==
    /\ cluster.pc = "l255"
    /\ cluster.node < cluster.n_nodes
    /\ LET node == cluster.node
           write_set_idx == get_write_set_idx(cluster, node)
           st == write_loop([memory |-> cluster.memories[node],
                             should_remap |-> cluster.should_remap,
                             should_terminate |-> cluster.should_terminate],
                            cluster.write_sets[write_set_idx],
                            cluster.intra_node_offsets[node],
                            cluster.memory_n_pages, cluster.remap_period,
                            cluster.cell_write_endurance, 0)
       IN  cluster' = [cluster EXCEPT
                         !.memories[node] = st.memory,
                         !.should_remap = st.should_remap,
                         !.should_terminate = st.should_terminate,
                         !.runtimes[node] = cluster.runtimes[node]
                                            + cluster.input_time_units[write_set_idx],
                         !.node_epochs[node] = cluster.node_epochs[node] + 1,
                         !.applied[node] = cluster.applied[node]
                             + sum_new_writes(cluster.write_sets[write_set_idx], 0),
                         !.applied_since_remap[node] =
                             cluster.applied_since_remap[node]
                             + sum_new_writes(cluster.write_sets[write_set_idx], 0),
                         !.cluster_node_shift =
                             IF st.should_remap /\ ~cluster.should_remap
                             THEN (cluster.cluster_node_shift + 1) % cluster.n_nodes
                             ELSE cluster.cluster_node_shift,
                         !.node = IF st.should_terminate THEN node ELSE node + 1,
                         !.pc = IF st.should_terminate \/ node + 1 >= cluster.n_nodes
                                THEN "l291" ELSE "l255"]
    /\ UNCHANGED <<single, rand_stream>>

\* variant: the node loop has no break, the remaining nodes are processed
cluster_node_no_break ==
    /\ cluster.pc = "l255"
    /\ cluster.node < cluster.n_nodes
    /\ LET node == cluster.node
           write_set_idx == get_write_set_idx(cluster, node)
           st == write_loop([memory |-> cluster.memories[node],
                             should_remap |-> cluster.should_remap,
                             should_terminate |-> cluster.should_terminate],
                            cluster.write_sets[write_set_idx],
                            cluster.intra_node_offsets[node],
                            cluster.memory_n_pages, cluster.remap_period,
                            cluster.cell_write_endurance, 0)
       IN  cluster' = [cluster EXCEPT
                         !.memories[node] = st.memory,
                         !.should_remap = st.should_remap,
                         !.should_terminate = st.should_terminate,
                         !.runtimes[node] = cluster.runtimes[node]
                                            + cluster.input_time_units[write_set_idx],
                         !.node_epochs[node] = cluster.node_epochs[node] + 1,
                         !.applied[node] = cluster.applied[node]
                             + sum_new_writes(cluster.write_sets[write_set_idx], 0),
                         !.applied_since_remap[node] =
                             cluster.applied_since_remap[node]
                             + sum_new_writes(cluster.write_sets[write_set_idx], 0),
                         !.node = IF node + 1 >= cluster.n_nodes THEN node
                                  ELSE node + 1,
                         !.pc = IF node + 1 >= cluster.n_nodes
                                THEN "l291" ELSE "l255"]
    /\ UNCHANGED <<single, rand_stream>>

\* the body of the node loop for the current node, and its break
cluster_node ==
    /\ cluster.pc = "l255"
    /\ cluster.node < cluster.n_nodes
    /\ LET node == cluster.node
           write_set_idx == get_write_set_idx(cluster, node)
           st == write_loop([memory |-> cluster.memories[node],
                             should_remap |-> cluster.should_remap,
                             should_terminate |-> cluster.should_terminate],
                            cluster.write_sets[write_set_idx],
                            cluster.intra_node_offsets[node],
                            cluster.memory_n_pages, cluster.remap_period,
                            cluster.cell_write_endurance, 0)
       IN  cluster' = [cluster EXCEPT
                         !.memories[node] = st.memory,
                         !.should_remap = st.should_remap,
                         !.should_terminate = st.should_terminate,
                         !.runtimes[node] = cluster.runtimes[node]
                                            + cluster.input_time_units[write_set_idx],
                         !.node_epochs[node] = cluster.node_epochs[node] + 1,
                         !.applied[node] = cluster.applied[node]
                             + sum_new_writes(cluster.write_sets[write_set_idx], 0),
                         !.applied_since_remap[node] =
                             cluster.applied_since_remap[node]
                             + sum_new_writes(cluster.write_sets[write_set_idx], 0),
                         !.node = IF st.should_terminate THEN node ELSE node + 1,
                         !.pc = IF st.should_terminate \/ node + 1 >= cluster.n_nodes
                                THEN "l291" ELSE "l255"]
    /\ UNCHANGED <<single, rand_stream>>

\* if (should_terminate) break;  if (should_remap) do_remap();  ++n_iterations;
cluster_epoch_end ==
    /\ cluster.pc = "l291"
    /\ IF cluster.should_terminate
       THEN /\ cluster' = [cluster EXCEPT !.pc = "print_stats"]
            /\ UNCHANGED rand_stream
       ELSE IF cluster.should_remap
       THEN \E d \in rand_draws(cluster.rand_pos, cluster.n_nodes,
                                cluster.memory_n_pages) :
                /\ cluster' = [cluster_do_remap(cluster, d) EXCEPT
                                 !.n_iterations = cluster.n_iterations + 1,
                                 !.pc = "l252"]
                /\ rand_stream' = rand_extend(cluster.rand_pos, d)
       ELSE /\ cluster' = [cluster EXCEPT
                             !.n_iterations = cluster.n_iterations + 1,
                             !.pc = "l252"]
            /\ UNCHANGED rand_stream
    /\ UNCHANGED single

RECURSIVE min_runtime(_, _, _, _)
\* time_unscaled = MIN(time_unscaled, runtimes[i]) over the nodes i ..; the
\* accumulator -1 stands for std::numeric_limits<double>::max()
min_runtime(runtimes, n_nodes, i, acc) ==
    IF i >= n_nodes THEN acc
    ELSE min_runtime(runtimes, n_nodes, i + 1,
                     IF acc = -1 \/ runtimes[i] < acc THEN runtimes[i] ELSE acc)

\* compute_stats() of the cluster build
cluster_compute_stats(c) ==
    LET t == min_runtime(c.runtimes, c.n_nodes, 0, -1)
    IN  [c EXCEPT
           !.wss_bytes = [i \in Nodes(c) |-> c.write_sets_n_pages[i] * c.page_size],
           !.wss_gib = [i \in Nodes(c) |->
                           dbl(c.write_sets_n_pages[i] * c.page_size, 1, -1)],
           !.time_unscaled = dbl(t, 1, 0),
           !.mems_per_gib = dbl(1, c.memory_n_pages * c.page_size, 1),
           !.n_iterations_per_gib =
               dbl(c.n_iterations, c.memory_n_pages * c.page_size, 1),
           !.time_per_gib = dbl(t, c.memory_n_pages * c.page_size, 1),
           !.stats_final = TRUE]

\* print_stats(): computes first if that has not been done, then prints
cluster_print_stats(c) ==
    [(IF ~c.stats_final THEN cluster_compute_stats(c) ELSE c)
        EXCEPT !.report_printed = TRUE]

\* print_stats() as called by run(), then main() returns 0
cluster_run_print_stats ==
    /\ cluster.pc = "print_stats"
    /\ cluster' = [cluster_print_stats(cluster) EXCEPT !.pc = "exit",
                                                      !.exit_status = 0]
    /\ UNCHANGED <<single, rand_stream>>

(* ======================== specifications =============================== *)
\* the arguments of a well-formed command line of the single-node build
single_cfg(mode, cell_write_endurance, remap_period, input_time_units, input_file) ==
    [argv |-> "ok", mode |-> mode, page_size |-> 1,
     cell_write_endurance |-> cell_write_endurance,
     remap_period |-> remap_period, input_time_units |-> input_time_units,
     input_filepath |-> "trace", input_file_opens |-> TRUE,
     input_file_tail |-> 0, input_file |-> input_file]

\* the arguments of a well-formed command line of the cluster build
cluster_cfg(mode, cell_write_endurance, remap_period, input_time_units, input_files) ==
    [argv |-> "ok", mode |-> mode, page_size |-> 1,
     cell_write_endurance |-> cell_write_endurance,
     remap_period |-> remap_period,
     n_nodes |-> Cardinality(DOMAIN input_files),
     input_time_units |-> input_time_units,
     input_files |-> input_files,
     input_files_open |-> [i \in DOMAIN input_files |-> TRUE],
     input_file_tails |-> [i \in DOMAIN input_files |-> 0]]

\* a build that is not run
single_off ==
    [single_constructed(single_cfg("write", 1, 0, 1, <<0>>)) EXCEPT !.pc = "off"]

cluster_off ==
    [cluster_constructed(cluster_cfg("write", 1, 0, [i \in {0} |-> 1],
                                     [i \in {0} |-> <<0>>]))
        EXCEPT !.pc = "off"]

\* the scenario of the specification: write_set = [3, 5], endurance 10, period 6
ScenarioFile == <<3, 5>>

\* the lifetime scenario: write_set = [2, 4, 4], endurance 100, time units 1
LifetimeScenarioFile == <<2, 4, 4>>

\* the traces of the single-node runs: every write-set, and the empty file
TraceDom == WriteSetDom \cup {<<>>}

\* command lines of the single-node build that need not be well-formed: any
\* way the getopt() loop can end, missing (sentinel), zero and negative
\* values, a file that does not open or has a ragged tail
SingleArgConfigs ==
    [argv : {"ok", "unrecognized", "unparsable"},
     mode : {"", "write", "time", "lifetime", "erase"},
     page_size : {-2, -1, 0, 2},
     cell_write_endurance : {-2, -1, 0, 2},
     remap_period : {-1, 1},
     input_time_units : {0, 1},
     input_filepath : {"", "trace"},
     input_file_opens : BOOLEAN,
     input_file_tail : {0, 4},
     input_file : {<<1, 2>>}]

SingleConfigs ==
    {single_cfg(mode, e, r, t, f) :
        mode \in {"write", "time"}, e \in 1 .. MaxEndurance, r \in PeriodDom,
        t \in TimeUnitsDom, f \in TraceDom}
    \cup
    {single_cfg("lifetime", e, -1, t, f) :
        e \in 1 .. MaxEndurance, t \in TimeUnitsDom, f \in TraceDom}
    \cup
    {single_cfg("write", 10, 6, 1, ScenarioFile),
     single_cfg("lifetime", 100, -1, 1, LifetimeScenarioFile)}
    \cup
    SingleArgConfigs

\* the traces of the cluster runs in which some trace file is empty
ClusterEmptyTraces ==
    {[i \in {0} |-> <<>>],
     [i \in {0, 1} |-> IF i = 0 THEN <<>> ELSE <<1>>],
     [i \in {0, 1} |-> IF i = 0 THEN <<2>> ELSE <<>>],
     [i \in {0, 1} |-> <<>>]}

\* the state of the files of a command line with k -i arguments: all fine,
\* or one of them does not open or has a ragged tail
ClusterFileFaults(k) ==
    {[open |-> [i \in 0 .. (k - 1) |-> TRUE], tails |-> [i \in 0 .. (k - 1) |-> 0]]}
    \cup
    {[open |-> [i \in 0 .. (k - 1) |-> i # bad],
      tails |-> [i \in 0 .. (k - 1) |-> 0]] : bad \in 0 .. (k - 1)}
    \cup
    {[open |-> [i \in 0 .. (k - 1) |-> TRUE],
      tails |-> [i \in 0 .. (k - 1) |-> IF i = bad THEN 4 ELSE 0]] :
        bad \in 0 .. (k - 1)}

\* command lines of the cluster build that need not be well-formed; k and m
\* are the numbers of -i and of -t arguments
ClusterArgConfigs ==
    UNION { UNION {
      [argv : {"ok", "unrecognized", "unparsable", "unpaired"},
       mode : {"", "write", "time", "lifetime", "erase"},
       page_size : {-2, -1, 0, 2},
       cell_write_endurance : {-2, -1, 0, 2},
       remap_period : {-1, 1},
       n_nodes : {k},
       input_time_units : {[i \in 0 .. (m - 1) |-> 1]},
       input_files : {[i \in 0 .. (k - 1) |-> <<1, 2>>]},
       input_files_open : {ff.open},
       input_file_tails : {ff.tails}] :
          m \in {0, 1, 2}, ff \in ClusterFileFaults(k)} : k \in {0, 1, 2}}

ClusterConfigs ==
    UNION {{cluster_cfg("write", e, r, t, f) :
               e \in 1 .. MaxEndurance, r \in PeriodDom,
               t \in ClusterTimeUnits(n),
               f \in [0 .. (n - 1) -> ClusterFileDom(n)]} : n \in NodeCounts}
    \cup
    {cluster_cfg("write", e, r, [i \in DOMAIN f |-> 1], f) :
        e \in 1 .. MaxEndurance, r \in PeriodDom, f \in ClusterEmptyTraces}
    \cup
    {cluster_cfg("write", 10, 6, [i \in {0} |-> 1], [i \in {0} |-> ScenarioFile])}
    \cup
    ClusterArgConfigs

Init ==
    /\ rand_stream = <<>>
    /\ \/ /\ \E cfg \in SingleConfigs : single = single_started(cfg)
          /\ cluster = cluster_off
       \/ /\ single = single_off
          /\ \E cfg \in ClusterConfigs : cluster = cluster_started(cfg)

Next ==
    \/ single_parse_and_validate_args
    \/ single_read_input_file
    \/ single_create_memory
    \/ single_write_epoch
    \/ single_write_remap
    \/ single_write_end
    \/ single_time_epoch
    \/ single_time_end
    \/ single_time_remap
    \/ single_do_sim_lifetime
    \/ single_run_print_stats
    \/ cluster_parse_and_validate_args
    \/ cluster_read_input_files
    \/ cluster_create_node_memories
    \/ cluster_do_sim_write
    \/ cluster_epoch_begin
    \/ cluster_node
    \/ cluster_epoch_end
    \/ cluster_run_print_stats

Spec == Init /\ [][Next]_vars


(* ---- the program run twice on the same command line and files: when  ---- *)
(* ---- the first process has exited with status 0, main() is entered    ---- *)
(* ---- again; first_run keeps the object the first process ended with.  ---- *)
(* ---- rand_gen.seed(RAND_SEED) restarts the generator, so the second   ---- *)
(* ---- run draws the sequence rand_stream holds from its beginning.     ---- *)
single_rerun ==
    /\ single.pc = "exit"
    /\ single.exit_status = 0
    /\ single.run = 1
    /\ single' = [single_started(single) EXCEPT !.run = 2, !.first_run = single]
    /\ UNCHANGED <<cluster, rand_stream>>

cluster_rerun ==
    /\ cluster.pc = "exit"
    /\ cluster.exit_status = 0
    /\ cluster.run = 1
    /\ cluster' = [cluster_started(cluster) EXCEPT !.run = 2,
                                                  !.first_run = cluster]
    /\ UNCHANGED <<single, rand_stream>>

NextTwice == Next \/ single_rerun \/ cluster_rerun

SpecTwice == Init /\ [][NextTwice]_vars

(* ---- cross-check: one trace run by the single-node build and by the ---- *)
(* ---- cluster build with exactly one node, both in write mode        ---- *)
cluster_of_single(cfg) ==
    cluster_cfg(cfg.mode, cfg.cell_write_endurance, cfg.remap_period,
                [i \in {0} |-> cfg.input_time_units],
                [i \in {0} |-> cfg.input_file])

InitCross ==
    /\ rand_stream = <<>>
    /\ \E cfg \in {single_cfg("write", e, r, t, f) :
                      e \in 1 .. MaxEndurance, r \in PeriodDom,
                      t \in TimeUnitsDom, f \in WriteSetDom}
                  \cup {single_cfg("write", 10, 6, 1, ScenarioFile)} :
          /\ single = single_constructed(cfg)
          /\ cluster = cluster_constructed(cluster_of_single(cfg))

NextCross ==
    \/ single_read_input_file
    \/ single_create_memory
    \/ single_write_epoch
    \/ single_write_remap
    \/ single_write_end
    \/ cluster_read_input_files
    \/ cluster_create_node_memories
    \/ cluster_do_sim_write
    \/ cluster_epoch_begin
    \/ cluster_node
    \/ cluster_epoch_end

SpecCross == InitCross /\ [][NextCross]_vars

(* ---- memory sizing alone: traces of 1 .. MaxSizingLen pages ----------- *)
zero_file(len) == [i \in 1 .. len |-> 0]

InitSizing ==
    /\ rand_stream = <<>>
    /\ \/ /\ \E len \in 1 .. MaxSizingLen :
                single = single_constructed(
                    single_cfg("write", 1, 0, 1, zero_file(len)))
          /\ cluster = cluster_off
       \/ /\ single = single_off
          /\ \E n \in {1, 2} : \E lens \in [0 .. (n - 1) -> 1 .. MaxSizingLen] :
                cluster = cluster_constructed(
                    cluster_cfg("write", 1, 0, [i \in 0 .. (n - 1) |-> 1],
                                [i \in 0 .. (n - 1) |-> zero_file(lens[i])]))

NextSizing ==
    \/ single_read_input_file
    \/ single_create_memory
    \/ cluster_read_input_files
    \/ cluster_create_node_memories

SpecSizing == InitSizing /\ [][NextSizing]_vars

(* ---- the write-triggered engine run to its end, however long that    ---- *)
(* ---- takes: the epochs are not capped, so the unsigned 64-bit        ---- *)
(* ---- counters are kept at their width, scaled down to WordBits bits  ---- *)
(* ---- (uint64_t wraps modulo WordMod, int64_t spans                   ---- *)
(* ---- -WordMod/2 .. WordMod/2 - 1), and a double absorbs an addend    ---- *)
(* ---- once it has grown past DoubleExact.  The offset of a remap may  ---- *)
(* ---- be any page index; the history fields are left alone.           ---- *)
WordBits == 3

WordMod == 2 ^ WordBits

DoubleExact == WordMod

\* a remap_period no uint64_t counter reaches
NeverPeriod == 2 * WordMod

\* the conversion of an int64_t to uint64_t in a mixed comparison
as_uint64(x) == x % WordMod

\* x + y in uint64_t
add_uint64(x, y) == (x + y) % WordMod

\* x + y in double: exact up to DoubleExact, absorbed beyond it
add_double(x, y) == IF x + y > DoubleExact THEN x ELSE x + y

\* the body of the inner loop of do_sim_write for one page, at word width
write_page_uint64(st, new_writes, mem_idx, remap_period, cell_write_endurance) ==
    LET m == [period_writes |-> add_uint64(st.memory[mem_idx].period_writes,
                                           new_writes),
              total_writes  |-> add_uint64(st.memory[mem_idx].total_writes,
                                           new_writes)]
    IN  [memory           |-> [st.memory EXCEPT ![mem_idx] = m],
         should_remap     |-> st.should_remap \/ (m.period_writes >= remap_period),
         should_terminate |-> st.should_terminate
                                \/ (m.total_writes >= as_uint64(cell_write_endurance))]

RECURSIVE write_loop_uint64(_, _, _, _, _, _, _)
\* the inner loop of do_sim_write at word width
write_loop_uint64(st, write_set, offset, memory_n_pages, remap_period, cell_write_endurance, page) ==
    IF page >= Len(write_set) THEN st
    ELSE write_loop_uint64(
             write_page_uint64(st, write_set[page + 1],
                               (page + offset) % memory_n_pages,
                               remap_period, cell_write_endurance),
             write_set, offset, memory_n_pages, remap_period,
             cell_write_endurance, page + 1)

\* the page-counter part of do_remap() at word width
remap_pages_uint64(memory) ==
    [j \in DOMAIN memory |->
        [period_writes |-> 0,
         total_writes  |-> add_uint64(memory[j].total_writes,
                                      EXTRA_WRITES_PER_REMAP)]]

\* the inner loop of one pass of the single-node do_sim_write
single_live_write_epoch ==
    /\ single.pc = "do_sim_write"
    /\ LET st == write_loop_uint64([memory |-> single.memory,
                                    should_remap |-> FALSE,
                                    should_terminate |-> FALSE],
                                   single.write_set, single.curr_offset,
                                   single.memory_n_pages, single.remap_period,
                                   single.cell_write_endurance, 0)
       IN  single' = [single EXCEPT !.memory = st.memory,
                                    !.should_remap = st.should_remap,
                                    !.should_terminate = st.should_terminate,
                                    !.pc = "l205"]
    /\ UNCHANGED <<cluster, rand_stream>>

\* if (should_remap) do_remap();
single_live_write_remap ==
    /\ single.pc = "l205"
    /\ IF single.should_remap
       THEN \E o \in 0 .. (single.memory_n_pages - 1) :
                single' = [single EXCEPT
                             !.memory = remap_pages_uint64(single.memory),
                             !.curr_offset = o,
                             !.n_remaps = add_uint64(single.n_remaps, 1),
                             !.pc = "l206"]
       ELSE single' = [single EXCEPT !.pc = "l206"]
    /\ UNCHANGED <<cluster, rand_stream>>

\* if (should_terminate) break;  ++n_iterations;
single_live_write_end ==
    /\ single.pc = "l206"
    /\ IF single.should_terminate
       THEN single' = [single EXCEPT !.pc = "print_stats"]
       ELSE single' = [single EXCEPT
                         !.n_iterations = add_uint64(single.n_iterations, 1),
                         !.pc = "do_sim_write"]
    /\ UNCHANGED <<cluster, rand_stream>>

\* while (!should_terminate) { bool should_remap = false; node = 0 ...
cluster_live_epoch_begin ==
    /\ cluster.pc = "l252"
    /\ ~cluster.should_terminate
    /\ cluster' = [cluster EXCEPT !.should_remap = FALSE,
                                  !.node = 0,
                                  !.pc = "l255"]
    /\ UNCHANGED <<single, rand_stream>>

\* the body of the node loop for the current node, and its break
cluster_live_node ==
    /\ cluster.pc = "l255"
    /\ cluster.node < cluster.n_nodes
    /\ LET node == cluster.node
           write_set_idx == get_write_set_idx(cluster, node)
           st == write_loop_uint64([memory |-> cluster.memories[node],
                                    should_remap |-> cluster.should_remap,
                                    should_terminate |-> cluster.should_terminate],
                                   cluster.write_sets[write_set_idx],
                                   cluster.intra_node_offsets[node],
                                   cluster.memory_n_pages, cluster.remap_period,
                                   cluster.cell_write_endurance, 0)
       IN  cluster' = [cluster EXCEPT
                         !.memories[node] = st.memory,
                         !.should_remap = st.should_remap,
                         !.should_terminate = st.should_terminate,
                         !.runtimes[node] =
                             add_double(cluster.runtimes[node],
                                        cluster.input_time_units[write_set_idx]),
                         !.node = IF st.should_terminate THEN node ELSE node + 1,
                         !.pc = IF st.should_terminate \/ node + 1 >= cluster.n_nodes
                                THEN "l291" ELSE "l255"]
    /\ UNCHANGED <<single, rand_stream>>

\* if (should_terminate) break;  if (should_remap) do_remap();  ++n_iterations;
cluster_live_epoch_end ==
    /\ cluster.pc = "l291"
    /\ IF cluster.should_terminate
       THEN cluster' = [cluster EXCEPT !.pc = "print_stats"]
       ELSE IF cluster.should_remap
       THEN \E d \in [Nodes(cluster) -> 0 .. (cluster.memory_n_pages - 1)] :
                cluster' = [cluster EXCEPT
                              !.memories = [i \in Nodes(cluster) |->
                                  remap_pages_uint64(cluster.memories[i])],
                              !.intra_node_offsets = d,
                              !.cluster_node_shift =
                                  (cluster.cluster_node_shift + 1) % cluster.n_nodes,
                              !.n_remaps = add_uint64(cluster.n_remaps, 1),
                              !.n_iterations = add_uint64(cluster.n_iterations, 1),
                              !.pc = "l252"]
       ELSE cluster' = [cluster EXCEPT
                          !.n_iterations = add_uint64(cluster.n_iterations, 1),
                          !.pc = "l252"]
    /\ UNCHANGED <<single, rand_stream>>

\* the endurances of the runs: positive ones, and negative ones that the
\* validation lets through
LiveEndurances == {1, 2, 3, -2}

LivePeriods == {1, 2, NeverPeriod}

LiveTraces == {<<1>>, <<4>>, <<0, 2>>, <<0, 0>>}

LiveClusterTraces ==
    {[i \in {0} |-> <<4>>],
     [i \in {0, 1} |-> IF i = 0 THEN <<1>> ELSE <<0>>],
     [i \in {0, 1} |-> IF i = 0 THEN <<0>> ELSE <<0>>],
     [i \in {0, 1} |-> IF i = 0 THEN <<0, 2>> ELSE <<1>>]}

InitLive ==
    /\ rand_stream = <<>>
    /\ \/ /\ \E e \in LiveEndurances, r \in LivePeriods, f \in LiveTraces :
                single = single_started(single_cfg("write", e, r, 1, f))
          /\ cluster = cluster_off
       \/ /\ single = single_off
          /\ \E e \in LiveEndurances, r \in LivePeriods, f \in LiveClusterTraces :
                cluster = cluster_started(
                              cluster_cfg("write", e, r, [i \in DOMAIN f |-> 1], f))

NextLive ==
    \/ single_parse_and_validate_args
    \/ single_read_input_file
    \/ single_create_memory
    \/ single_live_write_epoch
    \/ single_live_write_remap
    \/ single_live_write_end
    \/ single_run_print_stats
    \/ cluster_parse_and_validate_args
    \/ cluster_read_input_files
    \/ cluster_create_node_memories
    \/ cluster_do_sim_write
    \/ cluster_live_epoch_begin
    \/ cluster_live_node
    \/ cluster_live_epoch_end
    \/ cluster_run_print_stats

\* one thread runs the whole pipeline: whatever step is next is taken
SpecLive == InitLive /\ [][NextLive]_vars /\ WF_vars(NextLive)

(* ============================== claims ================================= *)
SinglePages == DOMAIN single.memory
ClusterPages(node) == DOMAIN cluster.memories[node]
ClusterNodes == DOMAIN cluster.memories

\* C1: in write-triggered mode, whenever the engine is still Running at an
\* epoch boundary (the head of the outer loop, after any remap of the epoch
\* just ended), every page of every node has total_writes below
\* cell_write_endurance.  Stated for the configurations with a positive
\* endurance, the ones the claim is about.
C1_RunningBelowEndurance ==
    /\ (single.pc = "do_sim_write" /\ single.cell_write_endurance > 0) =>
          \A p \in SinglePages :
              single.memory[p].total_writes < single.cell_write_endurance
    /\ (cluster.pc = "l252" /\ cluster.cell_write_endurance > 0) =>
          \A node \in ClusterNodes : \A p \in ClusterPages(node) :
              cluster.memories[node][p].total_writes < cluster.cell_write_endurance

\* C2: in write-triggered mode the epoch that detects termination performs
\* no remap event, in both builds: the step after the write accumulation of
\* a terminating epoch leaves n_remaps, the offsets, cluster_node_shift and
\* every page counter as the accumulation left them.
C2_NoRemapInTerminatingEpoch ==
    [][ /\ (single.pc = "l205" /\ single.should_terminate) =>
              /\ single'.n_remaps = single.n_remaps
              /\ single'.curr_offset = single.curr_offset
              /\ single'.memory = single.memory
        /\ (cluster.pc = "l291" /\ cluster.should_terminate) =>
              /\ cluster'.n_remaps = cluster.n_remaps
              /\ cluster'.intra_node_offsets = cluster.intra_node_offsets
              /\ cluster'.cluster_node_shift = cluster.cluster_node_shift
              /\ cluster'.memories = cluster.memories ]_vars

\* C3: the scenario write_set = [3, 5], cell_write_endurance = 10,
\* remap_period = 6 on a single node in write mode: memory_n_pages is 2, after
\* epoch 1 the pages hold total/period {3, 5} with no remap, epoch 2 brings the
\* totals to {6, 10} and terminates, ending with n_iterations = 1, n_remaps = 0.
page(period, total) == [period_writes |-> period, total_writes |-> total]

C3_Scenario ==
    /\ (/\ single.mode = "write" /\ single.input_file = ScenarioFile
        /\ single.cell_write_endurance = 10 /\ single.remap_period = 6) =>
          /\ (single.pc \notin {"parse_and_validate_args", "read_input_file",
                              "create_memory"}) =>
                single.memory_n_pages = 2
          /\ (single.pc = "do_sim_write" /\ single.epochs = 1) =>
                /\ single.memory = (0 :> page(3, 3) @@ 1 :> page(5, 5))
                /\ single.n_remaps = 0
          /\ (single.pc = "print_stats") =>
                /\ single.epochs = 2
                /\ single.memory[0].total_writes = 6
                /\ single.memory[1].total_writes = 10
                /\ single.n_iterations = 1
                /\ single.n_remaps = 0
    /\ (/\ cluster.n_nodes = 1 /\ cluster.input_files[0] = ScenarioFile
        /\ cluster.pc # "off"
        /\ cluster.cell_write_endurance = 10 /\ cluster.remap_period = 6) =>
          /\ (cluster.pc \notin {"parse_and_validate_args", "read_input_files",
                               "create_node_memories"}) =>
                cluster.memory_n_pages = 2
          /\ (cluster.pc = "l252" /\ cluster.epochs = 1) =>
                /\ cluster.memories[0] = (0 :> page(3, 3) @@ 1 :> page(5, 5))
                /\ cluster.n_remaps = 0
          /\ (cluster.pc = "print_stats") =>
                /\ cluster.epochs = 2
                /\ cluster.memories[0][0].total_writes = 6
                /\ cluster.memories[0][1].total_writes = 10
                /\ cluster.n_iterations = 1
                /\ cluster.n_remaps = 0

\* C4: once the memories are created, memory_n_pages is the smallest power
\* of two that is >= the largest write-set length, and every node's memory
\* array has exactly that many pages.
IsPowerOfTwo(n) == \E k \in 0 .. n : 2 ^ k = n

SmallestPowerOfTwoGeq(len) ==
    CHOOSE p \in len .. (2 * len) :
        /\ IsPowerOfTwo(p)
        /\ \A q \in len .. (2 * len) : IsPowerOfTwo(q) => p <= q

RECURSIVE Largest(_)
Largest(S) ==
    LET x == CHOOSE y \in S : TRUE
    IN  IF S = {x} THEN x ELSE MAX(x, Largest(S \ {x}))

C4_MemorySizing ==
    /\ (single.pc \notin {"off", "read_input_file", "create_memory"}) =>
          /\ single.memory_n_pages = SmallestPowerOfTwoGeq(Len(single.input_file))
          /\ DOMAIN single.memory = 0 .. (single.memory_n_pages - 1)
    /\ (cluster.pc \notin {"off", "read_input_files", "create_node_memories"}) =>
          /\ cluster.memory_n_pages =
                SmallestPowerOfTwoGeq(
                    Largest({Len(cluster.input_files[i]) : i \in Nodes(cluster)}))
          /\ \A i \in Nodes(cluster) :
                DOMAIN cluster.memories[i] = 0 .. (cluster.memory_n_pages - 1)

\* two nodes with traces of 5 and 9 pages got memories of 16 pages each
C4_Witness ==
    /\ cluster.pc = "do_sim_write"
    /\ cluster.n_nodes = 2
    /\ cluster.write_sets_n_pages = (0 :> 5 @@ 1 :> 9)
    /\ cluster.memory_n_pages = 16
    /\ \A i \in Nodes(cluster) : DOMAIN cluster.memories[i] = 0 .. 15


\* the steps that are remap events, by build and mode
RemapEventSingleWrite == single.pc = "l205" /\ single.should_remap
RemapEventSingleTime == single.pc = "l244" /\ single.remap_timer >= single.remap_period
RemapEventSingle == RemapEventSingleWrite \/ RemapEventSingleTime
RemapEventCluster ==
    cluster.pc = "l291" /\ ~cluster.should_terminate /\ cluster.should_remap

\* C5: a remap event adds exactly 1 (EXTRA_WRITES_PER_REMAP) to total_writes
\* of every page of every node in one step, written in the period or not,
\* and increments n_remaps by exactly 1.
C5_RemapOverhead ==
    [][ /\ RemapEventSingle =>
              /\ \A p \in SinglePages :
                    single'.memory[p].total_writes = single.memory[p].total_writes + 1
              /\ single'.n_remaps = single.n_remaps + 1
        /\ RemapEventCluster =>
              /\ \A node \in ClusterNodes : \A p \in ClusterPages(node) :
                    cluster'.memories[node][p].total_writes =
                        cluster.memories[node][p].total_writes + 1
              /\ cluster'.n_remaps = cluster.n_remaps + 1 ]_vars

\* right after the first remap of a three-page trace on four pages at offset
\* 0: page 3 was never written and holds exactly the overhead write
C5_Witness ==
    /\ single.pc = "l206"
    /\ single.n_remaps = 1
    /\ single.write_set_n_pages = 3
    /\ single.memory_n_pages = 4
    /\ single.memory[3].total_writes = 1
    /\ \E p \in 0 .. 2 : single.memory[p].total_writes > 1

\* C6: total_writes of a page never decreases; period_writes of a page
\* decreases only in a remap event, and a remap event sets period_writes of
\* every page of every node to exactly 0.
C6_Monotonic ==
    [][ /\ \A p \in SinglePages \cap DOMAIN single'.memory :
              /\ single'.memory[p].total_writes >= single.memory[p].total_writes
              /\ (single'.memory[p].period_writes < single.memory[p].period_writes)
                    => RemapEventSingle
        /\ RemapEventSingle =>
              \A p \in SinglePages : single'.memory[p].period_writes = 0
        /\ \A node \in ClusterNodes \cap DOMAIN cluster'.memories :
              \A p \in ClusterPages(node) :
                 /\ cluster'.memories[node][p].total_writes
                        >= cluster.memories[node][p].total_writes
                 /\ (cluster'.memories[node][p].period_writes
                        < cluster.memories[node][p].period_writes)
                       => RemapEventCluster
        /\ RemapEventCluster =>
              \A node \in ClusterNodes : \A p \in ClusterPages(node) :
                 cluster'.memories[node][p].period_writes = 0 ]_vars

\* a cluster back at the loop head after its first remap: a page that was
\* written (total beyond the overhead) has its period counter at 0
C6_Witness ==
    /\ cluster.pc = "l252"
    /\ cluster.n_remaps = 1
    /\ cluster.n_nodes >= 2
    /\ \E node \in ClusterNodes : \E p \in ClusterPages(node) :
          /\ cluster.memories[node][p].total_writes >= 2
          /\ cluster.memories[node][p].period_writes = 0

\* C7: in every reachable state of every mode and build, every page has
\* period_writes <= total_writes.
C7_PeriodWithinTotal ==
    /\ \A p \in SinglePages :
          single.memory[p].period_writes <= single.memory[p].total_writes
    /\ \A node \in ClusterNodes : \A p \in ClusterPages(node) :
          cluster.memories[node][p].period_writes
              <= cluster.memories[node][p].total_writes

\* a page written again after a remap: 0 < period_writes < total_writes
C7_Witness ==
    /\ single.mode = "write"
    /\ single.n_remaps >= 1
    /\ \E p \in SinglePages :
          /\ 0 < single.memory[p].period_writes
          /\ single.memory[p].period_writes < single.memory[p].total_writes

\* C8: in the cluster build the write-set assigned to a node after k remap
\* events is (node + k) mod n_nodes, the assignment is a permutation of the
\* write-set indices, and cluster_node_shift (0 at the start) changes only in
\* a remap event.
C8_Rotation ==
    /\ [](cluster.pc # "off" =>
            /\ \A node \in Nodes(cluster) :
                  get_write_set_idx(cluster, node)
                      = (node + cluster.n_remaps) % cluster.n_nodes
            /\ {get_write_set_idx(cluster, node) : node \in Nodes(cluster)}
                  = Nodes(cluster)
            /\ (cluster.n_remaps = 0 => cluster.cluster_node_shift = 0))
    /\ [][cluster'.cluster_node_shift # cluster.cluster_node_shift
            => RemapEventCluster]_vars

\* three nodes after three remaps: the rotation has wrapped around to 0
C8_Witness ==
    /\ cluster.n_nodes = 3
    /\ cluster.n_remaps = 3
    /\ cluster.cluster_node_shift = 0
    /\ cluster.pc = "l252"

\* C9: n_iterations is incremented exactly once at the end of every epoch
\* that does not detect termination and not by the terminating epoch: it
\* equals the number of epochs started while no epoch is in progress, and
\* the number of epochs started minus one at termination - in write mode
\* (both builds) and in time mode.
C9_IterationCount ==
    /\ (single.pc \in {"do_sim_write", "do_sim_time", "l244"}) =>
          single.n_iterations = single.epochs
    /\ (single.pc \in {"l205", "l206", "l238"}) =>
          single.n_iterations = single.epochs - 1
    /\ (single.pc = "print_stats" /\ single.mode # "lifetime") =>
          single.n_iterations = single.epochs - 1
    /\ (cluster.pc \in {"do_sim_write", "l252"}) =>
          cluster.n_iterations = cluster.epochs
    /\ (cluster.pc \in {"l255", "l291"}) =>
          cluster.n_iterations = cluster.epochs - 1
    /\ (cluster.pc = "print_stats") =>
          cluster.n_iterations = cluster.epochs - 1

\* a time-triggered run that terminated in its third epoch
C9_Witness ==
    /\ single.mode = "time"
    /\ single.pc = "print_stats"
    /\ single.epochs = 3
    /\ single.n_iterations = 2

\* C10: run on the same trace with the same endurance, remap period and
\* offset sequence, the cluster build with one node and the single-node build
\* end with the same n_iterations, n_remaps and per-page total_writes.
C10_OneNodeClusterEqualsSingle ==
    (single.pc = "print_stats" /\ cluster.pc = "print_stats") =>
        /\ cluster.n_iterations = single.n_iterations
        /\ cluster.n_remaps = single.n_remaps
        /\ \A p \in SinglePages :
              cluster.memories[0][p].total_writes = single.memory[p].total_writes



C11_SameResultTwiceNonEmpty ==
    /\ (single.pc = "exit" /\ single.run = 2 /\ single.input_file # <<>>) =>
          /\ single.exit_status = single.first_run.exit_status
          /\ single.n_iterations = single.first_run.n_iterations
          /\ single.n_remaps = single.first_run.n_remaps
          /\ single.memory = single.first_run.memory
          /\ single.curr_offset = single.first_run.curr_offset
    /\ (/\ cluster.pc = "exit" /\ cluster.run = 2
        /\ \A i \in Nodes(cluster) : cluster.input_files[i] # <<>>) =>
          /\ cluster.exit_status = cluster.first_run.exit_status
          /\ cluster.n_iterations = cluster.first_run.n_iterations
          /\ cluster.n_remaps = cluster.first_run.n_remaps
          /\ cluster.memories = cluster.first_run.memories
          /\ cluster.runtimes = cluster.first_run.runtimes
          /\ cluster.intra_node_offsets = cluster.first_run.intra_node_offsets
    /\ (single.pc # "off" /\ single.memory_n_pages > 0) =>
          /\ single.rand_pos = single.n_remaps
          /\ single.n_remaps > 0 => single.curr_offset = rand_stream[single.rand_pos]
    /\ (cluster.pc # "off" /\ cluster.intra_node_offsets # <<>>) =>
          /\ cluster.rand_pos = cluster.n_remaps * cluster.n_nodes
          /\ cluster.n_remaps > 0 =>
                \A i \in Nodes(cluster) :
                    cluster.intra_node_offsets[i]
                        = rand_stream[cluster.rand_pos - cluster.n_nodes + i + 1]

\* C12: if a loaded write-set has length zero (an empty trace file), the run
\* fails with an input error before the engine starts: once the files have
\* been read the process has exited with a non-zero status, no memory size
\* has been computed, no epoch has been executed and no report is printed.
C12_EmptyTraceRejected ==
    /\ (single.pc # "off" /\ single.input_file = <<>>) =>
          /\ (single.pc \notin {"parse_and_validate_args", "read_input_file"}) =>
                single.exit_status = 1
          /\ single.memory_n_pages = 0
          /\ single.epochs = 0
          /\ ~single.report_printed
    /\ (cluster.pc # "off" /\ \E i \in DOMAIN cluster.input_files :
                                  cluster.input_files[i] = <<>>) =>
          /\ (cluster.pc \notin {"parse_and_validate_args", "read_input_files"}) =>
                cluster.exit_status = 1
          /\ cluster.memory_n_pages = 0
          /\ cluster.epochs = 0
          /\ ~cluster.report_printed

\* C13: a configuration whose page_size or cell_write_endurance is not
\* strictly positive is rejected by validation: such a process is either
\* still validating or has exited with a non-zero status, and it has run no
\* epoch.
C13_NonPositiveRejected ==
    /\ (/\ single.pc # "off"
        /\ (single.page_size <= 0 \/ single.cell_write_endurance <= 0)) =>
          /\ single.pc \in {"parse_and_validate_args", "exit"}
          /\ (single.pc = "exit") => single.exit_status = 1
          /\ single.epochs = 0
    /\ (/\ cluster.pc # "off"
        /\ (cluster.page_size <= 0 \/ cluster.cell_write_endurance <= 0)) =>
          /\ cluster.pc \in {"parse_and_validate_args", "exit"}
          /\ (cluster.pc = "exit") => cluster.exit_status = 1
          /\ cluster.epochs = 0

\* the failures of a command line that validation is to catch
SingleArgsFailure ==
    \/ single.mode \notin {"write", "time", "lifetime"}
    \/ single.page_size = -1
    \/ single.cell_write_endurance = -1
    \/ (single.mode # "lifetime" /\ single.remap_period = -1)
    \/ single.input_filepath = ""
    \/ single.input_time_units = 0

ClusterArgsFailure ==
    \/ cluster.mode \notin {"write", "time", "lifetime"}
    \/ cluster.page_size = -1
    \/ cluster.cell_write_endurance = -1
    \/ (cluster.mode # "lifetime" /\ cluster.remap_period = -1)
    \/ DOMAIN cluster.input_files = {}
    \/ DOMAIN cluster.input_time_units = {}
    \/ DOMAIN cluster.input_files # DOMAIN cluster.input_time_units

\* the failures of the trace files: one does not open, or its size is not a
\* multiple of 8 bytes
SingleFileFailure ==
    ~single.input_file_opens \/ single.input_file_tail % 8 # 0

ClusterFileFailure ==
    \E i \in DOMAIN cluster.input_files :
        ~cluster.input_files_open[i] \/ cluster.input_file_tails[i] % 8 # 0

SingleEnginePcs == {"do_sim_write", "l205", "l206", "do_sim_time", "l238", "l244", "do_sim_lifetime", "print_stats"}
ClusterEnginePcs == {"do_sim_write", "l252", "l255", "l291", "print_stats"}

\* C14: every failure (missing or invalid mode, missing page size, endurance,
\* remap period, input file or time units, mismatched counts of files and
\* time units, a trace file that does not open or whose size is not a
\* multiple of 8, and in the cluster build a mode other than write) ends the
\* process with status 1 before any epoch and without the report: the step
\* that meets the failure exits with status 1, and such a process never
\* stands in the engine or has the report printed.  Once an epoch has begun
\* no process has exited with an error, and the step out of print_stats (the
\* terminated run) prints the report and exits with status 0.
C14_FailuresExitNonZero ==
    /\ [](/\ (single.pc # "off"
              /\ (SingleArgsFailure \/ SingleFileFailure)) =>
                /\ single.pc \notin SingleEnginePcs
                /\ single.epochs = 0
                /\ ~single.report_printed
                /\ single.exit_status # 0
          /\ (cluster.pc # "off"
              /\ (ClusterArgsFailure \/ ClusterFileFailure
                    \/ cluster.mode # "write")) =>
                /\ cluster.pc \notin ClusterEnginePcs
                /\ cluster.epochs = 0
                /\ ~cluster.report_printed
                /\ cluster.exit_status # 0
          /\ (single.epochs > 0) => single.exit_status # 1
          /\ (cluster.epochs > 0) => cluster.exit_status # 1
          /\ single.report_printed <=> single.exit_status = 0
          /\ cluster.report_printed <=> cluster.exit_status = 0)
    /\ [][/\ (single.pc = "parse_and_validate_args" /\ SingleArgsFailure) =>
                (single'.pc = "exit" /\ single'.exit_status = 1)
          /\ (single.pc = "read_input_file" /\ SingleFileFailure) =>
                (single'.pc = "exit" /\ single'.exit_status = 1)
          /\ (cluster.pc = "parse_and_validate_args" /\ ClusterArgsFailure) =>
                (cluster'.pc = "exit" /\ cluster'.exit_status = 1)
          /\ (cluster.pc = "read_input_files" /\ ClusterFileFailure) =>
                (cluster'.pc = "exit" /\ cluster'.exit_status = 1)
          /\ (cluster.pc = "create_node_memories" /\ cluster.mode # "write") =>
                (cluster'.pc = "exit" /\ cluster'.exit_status = 1)
          /\ (single.pc = "print_stats") =>
                /\ single'.pc = "exit" /\ single'.exit_status = 0
                /\ single'.report_printed
          /\ (cluster.pc = "print_stats") =>
                /\ cluster'.pc = "exit" /\ cluster'.exit_status = 0
                /\ cluster'.report_printed]_vars

\* a cluster run in lifetime mode has read its files and sized its memories
\* and has then died on the unsupported mode
C14_Witness ==
    /\ cluster.pc = "exit"
    /\ cluster.exit_status = 1
    /\ cluster.message = "NYI: mode unsupported"
    /\ cluster.mode = "lifetime"
    /\ cluster.memory_n_pages > 0
    /\ ~cluster.report_printed

RECURSIVE SumOf(_)
SumOf(seq) == IF seq = <<>> THEN 0 ELSE Head(seq) + SumOf(Tail(seq))

LargestOf(seq) == IF seq = <<>> THEN 0 ELSE Largest({seq[i] : i \in DOMAIN seq})

\* C15: lifetime-estimate mode reports max_write_count as the largest entry
\* of the write-set and sum_write_count as the sum of all entries, and sets
\* time_unscaled = (cell_write_endurance / max_write_count) * input_time_units
\* (kept as the exact quotient endurance * time units / max); no page counter
\* is written and no epoch is run.  For write_set = [2, 4, 4],
\* cell_write_endurance = 100 and input_time_units = 1 this gives max = 4,
\* sum = 10 and time_unscaled = 25.
C15_LifetimeEstimate ==
    (single.mode = "lifetime" /\ single.pc \in {"print_stats", "exit"}
        /\ single.exit_status # 1) =>
      /\ single.max_n_writes = LargestOf(single.write_set)
      /\ single.total_n_writes = SumOf(single.write_set)
      /\ single.time_unscaled.num
            = single.cell_write_endurance * single.input_time_units
      /\ single.time_unscaled.den = single.max_n_writes
      /\ single.time_unscaled.gib = 0
      /\ single.epochs = 0 /\ single.n_iterations = 0 /\ single.n_remaps = 0
      /\ \A p \in SinglePages : single.memory[p] = mem_zero
      /\ (/\ single.write_set = LifetimeScenarioFile
          /\ single.cell_write_endurance = 100
          /\ single.input_time_units = 1) =>
            /\ single.max_n_writes = 4
            /\ single.total_n_writes = 10
            /\ single.time_unscaled.num = 25 * single.time_unscaled.den

\* the lifetime scenario has been scanned
C15_Witness ==
    /\ single.mode = "lifetime"
    /\ single.pc = "print_stats"
    /\ single.write_set = LifetimeScenarioFile
    /\ single.cell_write_endurance = 100
    /\ single.max_n_writes = 4
    /\ single.total_n_writes = 10
    /\ single.time_unscaled = dbl(100, 4, 0)

\* the derived fields compute_stats() sets
SingleDerived(s) ==
    <<s.wss_pages, s.wss_bytes, s.wss_gib, s.mems_per_gib,
      s.n_iterations_per_gib, s.time_unscaled, s.time_per_gib>>

ClusterDerived(c) ==
    <<c.wss_bytes, c.wss_gib, c.mems_per_gib, c.n_iterations_per_gib,
      c.time_unscaled, c.time_per_gib>>

\* C16: computing the stats twice on the same terminal engine state yields
\* the same value for every derived field as computing them once;
\* compute_stats changes none of n_iterations, n_remaps, the runtimes and the
\* page counters; and once stats_final is set, print_stats leaves the derived
\* fields as they are.
C16_StatsIdempotent ==
    /\ (single.pc = "print_stats" \/ (single.pc = "exit" /\ single.stats_final)) =>
          LET once == single_compute_stats(single)
              twice == single_compute_stats(once)
          IN  /\ once.stats_final
              /\ SingleDerived(twice) = SingleDerived(once)
              /\ once.n_iterations = single.n_iterations
              /\ once.n_remaps = single.n_remaps
              /\ once.memory = single.memory
              /\ SingleDerived(single_print_stats(once)) = SingleDerived(once)
              /\ single.stats_final =>
                    /\ SingleDerived(once) = SingleDerived(single)
                    /\ single_print_stats(single) = single
    /\ (cluster.pc = "print_stats" \/ (cluster.pc = "exit" /\ cluster.stats_final)) =>
          LET once == cluster_compute_stats(cluster)
              twice == cluster_compute_stats(once)
          IN  /\ once.stats_final
              /\ ClusterDerived(twice) = ClusterDerived(once)
              /\ once.n_iterations = cluster.n_iterations
              /\ once.n_remaps = cluster.n_remaps
              /\ once.runtimes = cluster.runtimes
              /\ once.memories = cluster.memories
              /\ ClusterDerived(cluster_print_stats(once)) = ClusterDerived(once)
              /\ cluster.stats_final =>
                    /\ ClusterDerived(once) = ClusterDerived(cluster)
                    /\ cluster_print_stats(cluster) = cluster

\* a time-mode run of at least two counted epochs has printed its report
C16_Witness ==
    /\ single.pc = "exit"
    /\ single.stats_final
    /\ single.report_printed
    /\ single.mode = "time"
    /\ single.n_iterations >= 2
    /\ single.n_iterations_per_gib.num = single.n_iterations

\* C17: in the cluster engine, when termination is detected while node j is
\* being processed, no node with an index above j receives a write or a
\* runtime increment in that epoch (its page counters, runtime and number of
\* processed epochs are those the epoch started with), the nodes up to j
\* received theirs, and the loop is left without n_iterations being
\* incremented.
C17_BreakOnTermination ==
    /\ []((cluster.pc \in {"l291", "print_stats"} /\ cluster.should_terminate) =>
            /\ \A n \in Nodes(cluster) :
                  IF n > cluster.node
                  THEN /\ cluster.memories[n] = cluster.epoch_memories[n]
                       /\ cluster.runtimes[n] = cluster.epoch_runtimes[n]
                       /\ cluster.node_epochs[n] = cluster.epochs - 1
                  ELSE /\ cluster.runtimes[n] > cluster.epoch_runtimes[n]
                          \/ cluster.input_time_units[get_write_set_idx(cluster, n)] = 0
                       /\ cluster.node_epochs[n] = cluster.epochs
            /\ cluster.n_iterations = cluster.epochs - 1)
    /\ [][/\ (cluster.pc = "l255" /\ cluster'.should_terminate) =>
                (cluster'.pc = "l291" /\ cluster'.node = cluster.node)
          /\ (cluster.pc = "l291" /\ cluster.should_terminate) =>
                /\ cluster'.pc = "print_stats"
                /\ cluster'.n_iterations = cluster.n_iterations
                /\ cluster'.memories = cluster.memories
                /\ cluster'.runtimes = cluster.runtimes]_vars

\* termination was detected at the first of three nodes, in a later epoch
C17_Witness ==
    /\ cluster.pc = "l291"
    /\ cluster.should_terminate
    /\ cluster.n_nodes = 3
    /\ cluster.node = 0
    /\ cluster.epochs >= 2
    /\ cluster.node_epochs[2] = cluster.epochs - 1

\* C18: in write-triggered mode a remap is decided during an epoch but
\* applied only at its end.  While the nodes of an epoch are being written
\* (cluster build: from the loop head to the end of the node loop; single
\* build: the inner loop) the offsets, cluster_node_shift and n_remaps do not
\* change and no offset is drawn; the step at the end of the epoch performs at
\* most one remap event, and in the cluster build exactly when the epoch
\* decided one and did not terminate; so there are never more remap events
\* than epochs.
C18_RemapAtEpochEnd ==
    /\ [](/\ (cluster.pc # "off") => cluster.n_remaps <= cluster.epochs
          /\ (single.pc # "off" /\ single.mode = "write") =>
                single.n_remaps <= single.epochs)
    /\ [][/\ (cluster.pc \in {"l252", "l255"}) =>
                /\ cluster'.intra_node_offsets = cluster.intra_node_offsets
                /\ cluster'.cluster_node_shift = cluster.cluster_node_shift
                /\ cluster'.n_remaps = cluster.n_remaps
                /\ cluster'.rand_pos = cluster.rand_pos
          /\ (cluster.pc = "l255" /\ cluster.should_remap) =>
                cluster'.should_remap
          /\ (cluster.pc = "l291") =>
                IF cluster.should_remap /\ ~cluster.should_terminate
                THEN /\ cluster'.n_remaps = cluster.n_remaps + 1
                     /\ cluster'.cluster_node_shift
                           = (cluster.cluster_node_shift + 1) % cluster.n_nodes
                     /\ cluster'.rand_pos = cluster.rand_pos + cluster.n_nodes
                ELSE /\ cluster'.n_remaps = cluster.n_remaps
                     /\ cluster'.cluster_node_shift = cluster.cluster_node_shift
                     /\ cluster'.intra_node_offsets = cluster.intra_node_offsets
          /\ (single.pc = "do_sim_write") =>
                /\ single'.curr_offset = single.curr_offset
                /\ single'.n_remaps = single.n_remaps
                /\ single'.rand_pos = single.rand_pos
          /\ (single.pc = "l205") =>
                /\ single'.n_remaps <= single.n_remaps + 1
                /\ ~single.should_remap =>
                      /\ single'.n_remaps = single.n_remaps
                      /\ single'.curr_offset = single.curr_offset]_vars

\* a remap has been decided at the first node of an epoch that follows an
\* earlier remap, and the second node is still to be written
C18_Witness ==
    /\ cluster.pc = "l255"
    /\ cluster.should_remap
    /\ cluster.node = 1
    /\ cluster.n_nodes >= 2
    /\ cluster.n_remaps >= 1
    /\ cluster.cluster_node_shift = cluster.n_remaps % cluster.n_nodes

\* C19: in time-triggered mode write counts never trigger a remap and
\* period_writes of every page stays 0.  The elapsed-time accumulator
\* remap_timer is left alone by the writes of an epoch and by a terminating
\* epoch, and grows by input_time_units at the end of each non-terminating
\* epoch; a remap event (one overhead write on every page and a freshly drawn
\* offset) happens at the end of exactly those epochs where the accumulator
\* has reached remap_period, and the accumulator is 0 right after it, so at
\* the head of every epoch it is 0 or below remap_period.
C19_TimeTriggered ==
    /\ []((single.pc # "off" /\ single.mode = "time") =>
            /\ \A p \in SinglePages : single.memory[p].period_writes = 0
            /\ ~single.should_remap
            /\ (single.pc = "do_sim_time") =>
                  (single.remap_timer = 0
                     \/ single.remap_timer < single.remap_period))
    /\ [][/\ (single.pc = "do_sim_time") =>
                /\ single'.remap_timer = single.remap_timer
                /\ single'.n_remaps = single.n_remaps
                /\ single'.curr_offset = single.curr_offset
          /\ (single.pc = "l238") =>
                /\ single'.n_remaps = single.n_remaps
                /\ single'.memory = single.memory
                /\ single'.remap_timer =
                      IF single.should_terminate THEN single.remap_timer
                      ELSE single.remap_timer + single.input_time_units
          /\ (single.pc = "l244") =>
                IF single.remap_timer >= single.remap_period
                THEN /\ single'.n_remaps = single.n_remaps + 1
                     /\ single'.remap_timer = 0
                     /\ single'.rand_pos = single.rand_pos + 1
                     /\ single'.curr_offset = rand_stream'[single'.rand_pos]
                     /\ \A p \in SinglePages :
                           /\ single'.memory[p].total_writes =
                                 single.memory[p].total_writes
                                     + EXTRA_WRITES_PER_REMAP
                           /\ single'.memory[p].period_writes = 0
                ELSE /\ single'.n_remaps = single.n_remaps
                     /\ single'.remap_timer = single.remap_timer
                     /\ single'.memory = single.memory
                     /\ single'.curr_offset = single.curr_offset]_vars

\* a time-mode run stands at the head of an epoch right after a remap that
\* the accumulator needed more than one epoch to reach
C19_Witness ==
    /\ single.mode = "time"
    /\ single.pc = "do_sim_time"
    /\ single.remap_period = 2
    /\ single.input_time_units = 1
    /\ single.n_remaps = 1
    /\ single.n_iterations = 2
    /\ single.remap_timer = 0

Smallest(S) == CHOOSE x \in S : \A y \in S : x <= y

ClusterScales == {cluster.input_time_units[i] : i \in Nodes(cluster)}

ClusterTerminated ==
    cluster.pc \in {"l291", "print_stats"} /\ cluster.should_terminate

\* every processing of a node adds the scale of the write-set the rotation
\* assigns to it to that node's runtime, once, and to no other node's
RuntimeGrowsOncePerNodeEpoch ==
    (cluster.pc = "l255") =>
        LET node == cluster.node
            scale == cluster.input_time_units[
                         (node + cluster.cluster_node_shift) % cluster.n_nodes]
        IN  /\ cluster'.runtimes[node] = cluster.runtimes[node] + scale
            /\ cluster'.node_epochs[node] = cluster.node_epochs[node] + 1
            /\ \A n \in Nodes(cluster) \ {node} :
                  /\ cluster'.runtimes[n] = cluster.runtimes[n]
                  /\ cluster'.node_epochs[n] = cluster.node_epochs[n]

EpochsWithinOne ==
    \A i, j \in Nodes(cluster) :
        /\ cluster.node_epochs[i] - cluster.node_epochs[j] <= 1
        /\ (i < j) => cluster.node_epochs[i] >= cluster.node_epochs[j]

mem_idx_of(i, offset, memory_n_pages) == (i + offset) % memory_n_pages

\* the entries of a write-set of len pages that land on physical page p
EntriesOn(p, len, offset, memory_n_pages) ==
    {i \in 0 .. (len - 1) : mem_idx_of(i, offset, memory_n_pages) = p}

\* the mapping of a write-set of len pages is in bounds and injective
MappingInjective(len, offset, memory, memory_n_pages) ==
    /\ offset \in 0 .. (memory_n_pages - 1)
    /\ \A i \in 0 .. (len - 1) :
          /\ mem_idx_of(i, offset, memory_n_pages) \in 0 .. (memory_n_pages - 1)
          /\ mem_idx_of(i, offset, memory_n_pages) \in DOMAIN memory
    /\ \A i, j \in 0 .. (len - 1) :
          (i # j) => mem_idx_of(i, offset, memory_n_pages)
                        # mem_idx_of(j, offset, memory_n_pages)

\* one pass over write_set adds to every physical page the entry that lands
\* on it, and nothing to the pages no entry lands on
EpochWritesEachPageOnce(before, after, write_set, offset, memory_n_pages) ==
    \A p \in DOMAIN before :
        LET hits == EntriesOn(p, Len(write_set), offset, memory_n_pages)
        IN  /\ Cardinality(hits) <= 1
            /\ after[p].total_writes - before[p].total_writes
                  = IF hits = {} THEN 0 ELSE write_set[(CHOOSE i \in hits : TRUE) + 1]

\* C21: within one epoch the mapping mem_idx = (i + offset) mod memory_n_pages
\* of each node is in bounds and injective: every offset in force is in
\* [0, memory_n_pages), every mem_idx is a page of the node's memory, no two
\* entries of a write-set land on the same page, for every write-set the
\* rotation can assign to the node; and the writes of an epoch add exactly
\* one entry to each page that is hit.
C21_MappingInjective ==
    /\ []((single.pc \in {"do_sim_write", "l205", "l206", "do_sim_time", "l238", "l244"}) =>
             MappingInjective(single.write_set_n_pages, single.curr_offset,
                              single.memory, single.memory_n_pages))
    /\ []((cluster.pc \in {"l252", "l255", "l291"}) =>
             \A node \in Nodes(cluster) : \A ws \in Nodes(cluster) :
                 MappingInjective(cluster.write_sets_n_pages[ws],
                                  cluster.intra_node_offsets[node],
                                  cluster.memories[node], cluster.memory_n_pages))
    /\ [][/\ (single.pc \in {"do_sim_write", "do_sim_time"}) =>
                EpochWritesEachPageOnce(single.memory, single'.memory,
                                        single.write_set, single.curr_offset,
                                        single.memory_n_pages)
          /\ (cluster.pc = "l255") =>
                EpochWritesEachPageOnce(
                    cluster.memories[cluster.node],
                    cluster'.memories[cluster.node],
                    cluster.write_sets[(cluster.node + cluster.cluster_node_shift)
                                           % cluster.n_nodes],
                    cluster.intra_node_offsets[cluster.node],
                    cluster.memory_n_pages)]_vars

\* the second node of a rotated cluster is about to write a two-page
\* write-set through a non-zero offset, so the mapping wraps around
C21_Witness ==
    /\ cluster.pc = "l255"
    /\ cluster.node = 1
    /\ cluster.cluster_node_shift = 1
    /\ cluster.memory_n_pages = 2
    /\ cluster.intra_node_offsets[1] = 1
    /\ cluster.write_sets_n_pages[get_write_set_idx(cluster, 1)] = 2

\* every page of the memory has fewer than remap_period writes in this period
BelowPeriod(memory, remap_period) ==
    \A p \in DOMAIN memory : memory[p].period_writes < remap_period

\* C22: in write mode with remap_period > 0, at the start of every epoch
\* every page of every node has period_writes < remap_period, and whenever
\* an epoch that does not terminate leaves some page with
\* period_writes >= remap_period, a remap follows before the next epoch.
C22_RemapBeforeNextEpoch ==
    /\ []((single.pc = "do_sim_write" /\ single.mode = "write"
              /\ single.remap_period > 0) =>
             BelowPeriod(single.memory, single.remap_period))
    /\ []((cluster.pc = "l252" /\ cluster.mode = "write"
              /\ cluster.remap_period > 0) =>
             \A node \in Nodes(cluster) :
                 BelowPeriod(cluster.memories[node], cluster.remap_period))
    /\ [][/\ (/\ single.pc = "l205"
              /\ single.remap_period > 0
              /\ ~single.should_terminate
              /\ ~BelowPeriod(single.memory, single.remap_period)) =>
                 /\ single'.n_remaps = single.n_remaps + 1
                 /\ BelowPeriod(single'.memory, single.remap_period)
          /\ (/\ cluster.pc = "l291"
              /\ cluster.remap_period > 0
              /\ ~cluster.should_terminate
              /\ \E node \in Nodes(cluster) :
                    ~BelowPeriod(cluster.memories[node], cluster.remap_period)) =>
                 /\ cluster'.n_remaps = cluster.n_remaps + 1
                 /\ cluster'.pc = "l252"
                 /\ \A node \in Nodes(cluster) :
                       BelowPeriod(cluster'.memories[node], cluster.remap_period)]_vars

\* a cluster epoch that does not terminate ends with a page of the first
\* node exactly at remap_period while the last node stayed below it
C22_Witness ==
    /\ cluster.pc = "l291"
    /\ cluster.n_nodes = 2
    /\ cluster.remap_period = 2
    /\ ~cluster.should_terminate
    /\ \E p \in DOMAIN cluster.memories[0] :
          cluster.memories[0][p].period_writes = cluster.remap_period
    /\ BelowPeriod(cluster.memories[1], cluster.remap_period)

RECURSIVE SumOverPages(_, _, _)
\* the sum of one counter ("total" or "period") over pages 0 .. n - 1
SumOverPages(memory, counter, n) ==
    IF n = 0 THEN 0
    ELSE (IF counter = "total" THEN memory[n - 1].total_writes
                               ELSE memory[n - 1].period_writes)
         + SumOverPages(memory, counter, n - 1)

\* writes are conserved in a memory of memory_n_pages pages
WritesConserved(memory, memory_n_pages, applied, applied_since_remap, n_remaps) ==
    /\ SumOverPages(memory, "total", memory_n_pages)
          = applied + n_remaps * memory_n_pages * EXTRA_WRITES_PER_REMAP
    /\ SumOverPages(memory, "period", memory_n_pages) = applied_since_remap

\* C23: writes are conserved in write mode: at every epoch boundary (and at
\* every other position of do_sim_write) the sum of total_writes over the
\* pages of a node equals the sum of all write-set counts applied to that
\* node plus n_remaps * memory_n_pages * EXTRA_WRITES_PER_REMAP, and the sum
\* of period_writes equals the counts applied since the last remap.
C23_WritesConserved ==
    /\ (single.mode = "write"
          /\ single.pc \in {"do_sim_write", "l205", "l206", "print_stats"}) =>
             WritesConserved(single.memory, single.memory_n_pages,
                             single.applied, single.applied_since_remap,
                             single.n_remaps)
    /\ (cluster.mode = "write"
          /\ cluster.pc \in {"l252", "l255", "l291", "print_stats"}) =>
             \A node \in Nodes(cluster) :
                 WritesConserved(cluster.memories[node], cluster.memory_n_pages,
                                 cluster.applied[node],
                                 cluster.applied_since_remap[node],
                                 cluster.n_remaps)

\* a node of a cluster has been written both before and after a remap
C23_Witness ==
    /\ cluster.pc \in {"l291", "print_stats"}
    /\ cluster.mode = "write"
    /\ cluster.n_nodes >= 2
    /\ cluster.n_remaps >= 1
    /\ \E node \in Nodes(cluster) :
          /\ cluster.applied_since_remap[node] > 0
          /\ cluster.applied[node] > cluster.applied_since_remap[node]

\* some entry of the write-set is positive
HasPositiveEntry(write_set) == \E i \in DOMAIN write_set : write_set[i] > 0

\* the single-node engine has started on a trace with a positive entry
SingleWriting ==
    /\ single.pc = "do_sim_write"
    /\ HasPositiveEntry(single.write_set)

SingleTerminated == single.pc \in {"print_stats", "exit"} /\ single.should_terminate

\* the cluster engine has started on traces with a positive entry
ClusterWriting ==
    /\ cluster.pc = "l252"
    /\ \E i \in Nodes(cluster) : HasPositiveEntry(cluster.write_sets[i])

ClusterTerminated24 ==
    cluster.pc \in {"print_stats", "exit"} /\ cluster.should_terminate

\* C24: in write-triggered mode, if at least one entry of at least one
\* write-set is positive, then for every cell_write_endurance and every
\* sequence of remap offsets the simulation reaches Terminated after
\* finitely many epochs.
C24_WriteModeTerminates ==
    /\ SingleWriting ~> SingleTerminated
    /\ ClusterWriting ~> ClusterTerminated24

\* the same for the endurances the specification admits (positive ones)
C24_PositiveEnduranceTerminates ==
    /\ (SingleWriting /\ single.cell_write_endurance > 0) ~> SingleTerminated
    /\ (ClusterWriting /\ cluster.cell_write_endurance > 0) ~> ClusterTerminated24

====
